---- MODULE Spec2Model ----
(***************************************************************************)
(* Model of CrsSearch/indexer.py: the statute segmenter parse_crs_html and *)
(* the loader run_indexing that drives it.                                 *)
(*                                                                         *)
(* A text is a sequence of one-character strings, so that strip, upper,    *)
(* startswith, len, join and the section regular expression are computed   *)
(* character by character as Python computes them.                         *)
(***************************************************************************)
EXTENDS Naturals, Sequences, FiniteSets

\* ------------------------------------------------------------------ bounds
\* Largest number of <p> elements in the document.
MaxLen == 4
\* Largest number of <p> elements in a document the loader indexes.
MaxDocLen == 3
\* Largest number of rows left in each table by an earlier run.
MaxPrior == 2

\* --------------------------------------------------------------- constants
\* Python's None.  None and the empty string are both falsy, and truthiness
\* is the only test the code applies to current_section_id, so both are <<>>.
None == <<>>

GeneralProvisions ==
    <<"G", "e", "n", "e", "r", "a", "l", " ", "P", "r", "o", "v", "i", "s", "i", "o", "n", "s">>
UnknownTitle ==
    <<"U", "n", "k", "n", "o", "w", "n", " ", "T", "i", "t", "l", "e">>
ARTICLE ==
    <<"A", "R", "T", "I", "C", "L", "E">>
ArticleMaxLen == 50
SourcePrefix ==
    <<"S", "o", "u", "r", "c", "e", ":">>
CrossReferencesPrefix ==
    <<"C", "r", "o", "s", "s", " ", "r", "e", "f", "e", "r", "e", "n", "c", "e", "s", ":">>
LawReviewsPrefix ==
    <<"L", "a", "w", " ", "r", "e", "v", "i", "e", "w", "s", ":">>
Sep ==
    <<".", " ">>
NL == "\n"

Whitespace == {" ", NL}
Digits == {"0", "1", "2", "3", "4", "5", "6", "7", "8", "9"}

\* ------------------------------------------------------------------ inputs
\* Raw texts of the <p> elements the document may contain.
P_Article1 ==
    <<"A", "R", "T", "I", "C", "L", "E", " ", "1">>
P_Article2 ==
    <<"A", "r", "t", "i", "c", "l", "e", " ", "2">>
P_LongArticle ==
    ARTICLE \o [k \in 1..(ArticleMaxLen - Len(ARTICLE)) |-> "x"]
P_Sec101 ==
    <<"1", "8", "-", "1", "-", "1", "0", "1", ".", " ", "F", "o", "o", ".">>
P_Body ==
    <<"M", "o", "r", "e", " ", "b", "o", "d", "y", ".">>
P_Sec102 ==
    <<"1", "8", "-", "1", "-", "1", "0", "2", ".", " ", "B", "a", "r", ".">>
P_SecDecimal ==
    <<" ", "1", "8", "-", "1", "-", "1", "0", "2", ".", "5", ".">>
P_Source ==
    <<"S", "o", "u", "r", "c", "e", ":", " ", "L", ".", " ", "2", "0", "2", "0">>
P_CrossRef ==
    <<"C", "r", "o", "s", "s", " ", "r", "e", "f", "e", "r", "e", "n", "c", "e", "s", ":", " ", "x">>
P_LawRev ==
    <<"L", "a", "w", " ", "r", "e", "v", "i", "e", "w", "s", ":", " ", "y">>
P_Malformed ==
    <<"1", "8", "-", "1", ".", " ", "F", "o", "o">>
P_Blank ==
    <<" ", NL>>

Paragraphs ==
    { P_Article1, P_Article2, P_LongArticle, P_Sec101, P_Body, P_Sec102,
      P_SecDecimal, P_Source, P_CrossRef, P_LawRev, P_Malformed, P_Blank }

\* soup.find("h1"): <<>> when the document has no <h1>, else <<raw text>>.
H1s == { <<>>, << <<" ", "T", NL>> >> }

\* ------------------------------------------------------------ text helpers
RECURSIVE RunEnd(_, _, _)
\* First index j >= i with j > Len(s) or s[j] \notin class.
RunEnd(s, i, class) ==
    IF i <= Len(s) /\ s[i] \in class THEN RunEnd(s, i + 1, class) ELSE i

RECURSIVE RunStart(_, _, _)
\* Last index j <= i with j < 1 or s[j] \notin class.
RunStart(s, i, class) ==
    IF i >= 1 /\ s[i] \in class THEN RunStart(s, i - 1, class) ELSE i

\* str.strip()
Strip(s) ==
    SubSeq(s, RunEnd(s, 1, Whitespace), RunStart(s, Len(s), Whitespace))

LowerLetters ==
    <<"a", "b", "c", "d", "e", "f", "g", "h", "i", "j", "k", "l", "m",
      "n", "o", "p", "q", "r", "s", "t", "u", "v", "w", "x", "y", "z">>
UpperLetters ==
    <<"A", "B", "C", "D", "E", "F", "G", "H", "I", "J", "K", "L", "M",
      "N", "O", "P", "Q", "R", "S", "T", "U", "V", "W", "X", "Y", "Z">>

\* The upper-case form of each lower-case letter.
UpperOf ==
    [c \in { LowerLetters[j] : j \in 1..26 } |->
        UpperLetters[CHOOSE j \in 1..26 : LowerLetters[j] = c]]

\* str.upper()
Upper(s) ==
    [k \in 1..Len(s) |-> IF s[k] \in DOMAIN UpperOf THEN UpperOf[s[k]] ELSE s[k]]

\* str.startswith(prefix)
StartsWith(s, prefix) ==
    Len(s) >= Len(prefix) /\ SubSeq(s, 1, Len(prefix)) = prefix

\* str.replace(a, b) for single characters
Replace(s, a, b) == [k \in 1..Len(s) |-> IF s[k] = a THEN b ELSE s[k]]

RECURSIVE Join(_)
\* "\n".join(buffer)
Join(buffer) ==
    IF buffer = <<>> THEN <<>>
    ELSE IF Len(buffer) = 1 THEN buffer[1]
    ELSE buffer[1] \o <<NL>> \o Join(Tail(buffer))

\* p.get_text(" ", strip=True) of an element holding one text node.
get_text(raw) == Strip(raw)

\* Python truthiness of a string, a list or None.
Truthy(x) == x # <<>>

\* ------------------------------------------------------- parse_crs_html
\* main_title, from soup.find("h1").
MainTitle(h1) ==
    IF h1 # <<>> THEN Replace(get_text(h1[1]), NL, " ") ELSE UnknownTitle

\* Mutant: the length test admits 50 characters.
IsArticleHeaderUpTo50(text) ==
    StartsWith(Upper(text), ARTICLE) /\ Len(text) <= ArticleMaxLen

\* text.upper().startswith("ARTICLE") and len(text) < 50
IsArticleHeader(text) ==
    StartsWith(Upper(text), ARTICLE) /\ Len(text) < ArticleMaxLen

\* section_pattern.match(text): group(1) of ^\s*(\d+-\d+-\d+(?:\.\d+)?)\.?
\* or None when the pattern does not match.
SectionMatch(text) ==
    LET a == RunEnd(text, 1, Whitespace)
        b == RunEnd(text, a, Digits)
        c == RunEnd(text, b + 1, Digits)
        d == RunEnd(text, c + 1, Digits)
        f == RunEnd(text, d + 1, Digits)
        e == IF d <= Len(text) /\ text[d] = "." /\ f > d + 1 THEN f ELSE d
    IN  IF /\ b > a
           /\ b <= Len(text) /\ text[b] = "-"
           /\ c > b + 1
           /\ c <= Len(text) /\ text[c] = "-"
           /\ d > c + 1
        THEN SubSeq(text, a, e - 1)
        ELSE None

\* Mutant: the filter forgets the "Law reviews:" prefix.
IsMetadataNoLawReviews(text) ==
    \/ StartsWith(text, SourcePrefix)
    \/ StartsWith(text, CrossReferencesPrefix)

\* The metadata filter of a continuation paragraph.
IsMetadata(text) ==
    \/ StartsWith(text, SourcePrefix)
    \/ StartsWith(text, CrossReferencesPrefix)
    \/ StartsWith(text, LawReviewsPrefix)

\* Mutant: the content leaves out the header paragraph.
FullContentBodyOnly(buffer) == Strip(Join(Tail(buffer)))

\* full_content
FullContent(buffer) == Strip(Join(buffer))

\* Mutant: the buffer of a new section starts empty.
NewBufferEmpty(text) == <<>>

\* current_buffer = [text]
NewBuffer(text) == <<text>>

\* Mutant: the record is put in front of the output.
EmitFront(data, record) == <<record>> \o data

\* sections_data.append(record)
Emit(data, record) == Append(data, record)

\* The local variables of parse_crs_html when the loop is entered.
ParserInit(h1) ==
    [ main_title         |-> MainTitle(h1),
      current_article    |-> GeneralProvisions,
      current_section_id |-> None,
      current_buffer     |-> <<>>,
      sections_data      |-> <<>> ]

\* if current_section_id: (a section is being built when a header arrives)
CloseGuard(st) == Truthy(st.current_section_id)

\* Mutant: a paragraph is accumulated whether or not a section is open.
InSectionAlways(st) == TRUE

\* elif current_section_id:
InSection(st) == Truthy(st.current_section_id)

\* One iteration of the loop over the <p> elements.
LoopBody(st, p) ==
    LET text == get_text(p)
        match == SectionMatch(text)
        full_content == FullContent(st.current_buffer)
    IN  IF IsArticleHeader(text)
        THEN [st EXCEPT !.current_article = text]
        ELSE IF match # None
        THEN [st EXCEPT
                !.sections_data =
                    IF CloseGuard(st) /\ Truthy(full_content)
                    THEN Emit(st.sections_data,
                              <<st.main_title, st.current_article,
                                st.current_section_id, full_content>>)
                    ELSE st.sections_data,
                !.current_section_id = match,
                !.current_buffer = NewBuffer(text)]
        ELSE IF InSection(st)
        THEN IF IsMetadata(text)
             THEN st
             ELSE [st EXCEPT !.current_buffer = Append(st.current_buffer, text)]
        ELSE st

\* Mutant: the last section is never saved.
FlushGuardNever(st) == FALSE

\* Mutant: the save after the loop is unconditional.
FlushGuardAlways(st) == TRUE

\* if current_section_id and current_buffer: (the save of the last section)
FlushGuard(st) == Truthy(st.current_section_id) /\ Truthy(st.current_buffer)

\* 4. after the loop: save the very last section.
LastSection(st) ==
    IF FlushGuard(st)
    THEN [st EXCEPT
            !.sections_data =
                Emit(st.sections_data,
                     <<st.main_title, st.current_article,
                       st.current_section_id,
                       FullContent(st.current_buffer)>>)]
    ELSE st

RECURSIVE Loop(_, _)
\* for p in soup.find_all("p"): ...
Loop(st, ps) ==
    IF ps = <<>> THEN st ELSE Loop(LoopBody(st, Head(ps)), Tail(ps))

\* The list the function returns for a document with the given <h1> and <p>.
parse_crs_html(h1, ps) == LastSection(Loop(ParserInit(h1), ps)).sections_data

\* ---------------------------------------------------------- run_indexing
\* model.encode(text): the embedding model is opaque.
Encode(text) == [model |-> "all-MiniLM-L6-v2", text |-> text]

\* f"{article}. {sec_id}. {content}"
TextToEmbed(article, sec_id, content) ==
    article \o Sep \o sec_id \o Sep \o content

\* The id SQLite gives a row inserted without one (INTEGER PRIMARY KEY).
NextRowId(table) ==
    IF table = {} THEN 1
    ELSE (CHOOSE m \in {r.id : r \in table} :
              \A r \in table : r.id <= m) + 1

\* Rows an earlier run of run_indexing left in data/docs.db.
PriorSections(k) ==
    { [id |-> j, main_title |-> UnknownTitle, article |-> GeneralProvisions,
       section_id |-> SectionMatch(P_Sec101), content |-> P_Sec101]
      : j \in 1..k }
PriorVecSections(k) ==
    { [rowid |-> j,
       embedding |-> Encode(TextToEmbed(GeneralProvisions,
                                        SectionMatch(P_Sec101), P_Sec101))]
      : j \in 1..k }

\* Mutant: the table of the earlier run is kept.
DropAndCreateKeep(table) == table

\* DROP TABLE IF EXISTS ...; CREATE TABLE ...
DropAndCreate(table) == {}

\* The rowid the vector is stored under: the id the text row was given.
VectorRowId(id) == id

\* Documents of at most k paragraphs.
Documents(k) == UNION { [1..m -> Paragraphs] : m \in 0..k }

\* ------------------------------------------------------------------- state
VARIABLES
    pc,                 \* position in run_indexing / parse_crs_html
    paragraphs,         \* the <p> elements iterated so far, in order
    main_title,
    current_article,
    current_section_id,
    current_buffer,
    sections_data,      \* the parser's output; all_sections in the loader
    sections,           \* table sections
    vec_sections,       \* table vec_sections
    n,                  \* number of records the loader has finished
    row_id

vars == <<pc, paragraphs, main_title, current_article, current_section_id,
          current_buffer, sections_data, sections, vec_sections, n, row_id>>

parserVars == <<main_title, current_article, current_section_id,
                current_buffer, sections_data>>
dbVars == <<sections, vec_sections, n, row_id>>

\* The parser's local variables as one record.
State ==
    [ main_title         |-> main_title,
      current_article    |-> current_article,
      current_section_id |-> current_section_id,
      current_buffer     |-> current_buffer,
      sections_data      |-> sections_data ]

SetState(st) ==
    /\ main_title' = st.main_title
    /\ current_article' = st.current_article
    /\ current_section_id' = st.current_section_id
    /\ current_buffer' = st.current_buffer
    /\ sections_data' = st.sections_data

\* ------------------------------------------- the segmenter, step by step
Init ==
    /\ pc = "open"
    /\ paragraphs = <<>>
    /\ main_title = UnknownTitle
    /\ current_article = GeneralProvisions
    /\ current_section_id = None
    /\ current_buffer = <<>>
    /\ sections_data = <<>>
    /\ sections = {}
    /\ vec_sections = {}
    /\ n = 0
    /\ row_id = 0

\* parse_crs_html up to the loop: the title and the state variables.
OpenDocument ==
    /\ pc = "open"
    /\ \E h1 \in H1s : SetState(ParserInit(h1))
    /\ pc' = "loop"
    /\ UNCHANGED <<paragraphs, dbVars>>

\* The loop takes the next <p> of the document.
Iterate(p) ==
    /\ SetState(LoopBody(State, p))
    /\ paragraphs' = Append(paragraphs, p)
    /\ UNCHANGED <<pc, dbVars>>

\* A. the paragraph is an article header.
ArticleHeader(p) ==
    /\ pc = "loop"
    /\ Len(paragraphs) < MaxLen
    /\ IsArticleHeader(get_text(p))
    /\ Iterate(p)

\* B. the paragraph starts a new section.
SectionHeader(p) ==
    /\ pc = "loop"
    /\ Len(paragraphs) < MaxLen
    /\ ~IsArticleHeader(get_text(p))
    /\ SectionMatch(get_text(p)) # None
    /\ Iterate(p)

\* C. the paragraph continues the section being built.
Continuation(p) ==
    /\ pc = "loop"
    /\ Len(paragraphs) < MaxLen
    /\ Truthy(current_section_id)
    /\ ~IsArticleHeader(get_text(p))
    /\ SectionMatch(get_text(p)) = None
    /\ Iterate(p)

\* Neither a header nor inside a section.
Discard(p) ==
    /\ pc = "loop"
    /\ Len(paragraphs) < MaxLen
    /\ ~Truthy(current_section_id)
    /\ ~IsArticleHeader(get_text(p))
    /\ SectionMatch(get_text(p)) = None
    /\ Iterate(p)

\* The document has no more <p>: save the last section and return.
Flush ==
    /\ pc = "loop"
    /\ SetState(LastSection(State))
    /\ pc' = "returned"
    /\ UNCHANGED <<paragraphs, dbVars>>

Next ==
    \/ OpenDocument
    \/ \E p \in Paragraphs : ArticleHeader(p)
    \/ \E p \in Paragraphs : SectionHeader(p)
    \/ \E p \in Paragraphs : Continuation(p)
    \/ \E p \in Paragraphs : Discard(p)
    \/ Flush

Spec == Init /\ [][Next]_vars

\* ----------------------------------------------------------- the loader
InitIndex ==
    /\ pc = "setup"
    /\ paragraphs = <<>>
    /\ main_title = UnknownTitle
    /\ current_article = GeneralProvisions
    /\ current_section_id = None
    /\ current_buffer = <<>>
    /\ sections_data = <<>>
    /\ \E k \in 0..MaxPrior :
          /\ sections = PriorSections(k)
          /\ vec_sections = PriorVecSections(k)
    /\ n = 0
    /\ row_id = 0

\* DROP TABLE IF EXISTS / CREATE TABLE, for both tables.
SetupDB ==
    /\ pc = "setup"
    /\ sections' = DropAndCreate(sections)
    /\ vec_sections' = DropAndCreate(vec_sections)
    /\ pc' = "parse"
    /\ UNCHANGED <<paragraphs, parserVars, n, row_id>>

\* all_sections = parse_crs_html(...)
ParseHtml ==
    /\ pc = "parse"
    /\ \E h1 \in H1s, doc \in Documents(MaxDocLen) :
          /\ paragraphs' = doc
          /\ main_title' = MainTitle(h1)
          /\ sections_data' = parse_crs_html(h1, doc)
    /\ pc' = "index"
    /\ UNCHANGED <<current_article, current_section_id, current_buffer,
                   dbVars>>

\* INSERT INTO sections ... RETURNING id
InsertText ==
    /\ pc = "index"
    /\ n < Len(sections_data)
    /\ LET rec == sections_data[n + 1]
           id == NextRowId(sections)
       IN /\ sections' = sections \cup
                { [id |-> id, main_title |-> rec[1], article |-> rec[2],
                   section_id |-> rec[3], content |-> rec[4]] }
          /\ row_id' = id
    /\ pc' = "vector"
    /\ UNCHANGED <<paragraphs, parserVars, vec_sections, n>>

\* INSERT INTO vec_sections(rowid, embedding); a taken rowid raises.
InsertVector ==
    /\ pc = "vector"
    /\ LET rec == sections_data[n + 1]
           embedding == Encode(TextToEmbed(rec[2], rec[3], rec[4]))
           rowid == VectorRowId(row_id)
       IN IF \E v \in vec_sections : v.rowid = rowid
          THEN /\ pc' = "raised"
               /\ UNCHANGED <<vec_sections, n>>
          ELSE /\ vec_sections' = vec_sections \cup
                      { [rowid |-> rowid, embedding |-> embedding] }
               /\ n' = n + 1
               /\ pc' = "index"
    /\ UNCHANGED <<paragraphs, parserVars, sections, row_id>>

\* db.commit()
Commit ==
    /\ pc = "index"
    /\ n = Len(sections_data)
    /\ pc' = "done"
    /\ UNCHANGED <<paragraphs, parserVars, dbVars>>

NextIndex ==
    \/ SetupDB
    \/ ParseHtml
    \/ InsertText
    \/ InsertVector
    \/ Commit

SpecIndex == InitIndex /\ [][NextIndex]_vars

\* ------------------------------------------------- the document, as read
\* The text and the section identifier (or None) of each possible paragraph.
TextOf == [p \in Paragraphs |-> get_text(p)]
IdOf == [p \in Paragraphs |-> SectionMatch(get_text(p))]

\* The text of every paragraph iterated so far.
Texts == [k \in 1..Len(paragraphs) |-> TextOf[paragraphs[k]]]

RECURSIVE HeadersFrom(_)
\* Positions, from k on, of the paragraphs that match the section pattern.
HeadersFrom(k) ==
    IF k > Len(paragraphs) THEN <<>>
    ELSE IF IdOf[paragraphs[k]] # None THEN <<k>> \o HeadersFrom(k + 1)
    ELSE HeadersFrom(k + 1)

\* Positions of the section headers read so far, in input order.
Headers == HeadersFrom(1)
NumHeaders == Len(Headers)

\* Position of the j-th section header.
HeaderPos(j) == Headers[j]

\* Position of the header of the section that is open, or was open last.
LastHeader == HeaderPos(NumHeaders)

\* The paragraph just processed is a section header.
AtHeader == paragraphs # <<>> /\ IdOf[paragraphs[Len(paragraphs)]] # None

\* Position of the header before the one just processed.
PrevHeader == HeaderPos(NumHeaders - 1)

\* "begins case-insensitively with ARTICLE and is shorter than 50 characters"
ArticleBlock(text) ==
    /\ Len(text) >= 7
    /\ Upper(SubSeq(text, 1, 7)) = <<"A", "R", "T", "I", "C", "L", "E">>
    /\ Len(text) < 50

\* "starts with Source:, Cross references: or Law reviews:"
MetadataBlock(text) ==
    \E prefix \in { SourcePrefix, CrossReferencesPrefix, LawReviewsPrefix } :
        /\ Len(text) >= Len(prefix)
        /\ \A k \in 1..Len(prefix) : text[k] = prefix[k]

\* Every paragraph strictly between positions lo and hi is metadata, and
\* there is at least one.
OnlyMetadataBetween(lo, hi) ==
    /\ hi > lo + 1
    /\ \A k \in (lo + 1)..(hi - 1) : MetadataBlock(Texts[k])

\* The article label in force after the first k paragraphs.
ArticleAfter(k) ==
    LET arts == { m \in 1..k : ArticleBlock(Texts[m]) }
    IN  IF arts = {} THEN GeneralProvisions
        ELSE Texts[CHOOSE m \in arts : \A m2 \in arts : m2 <= m]

Last(s) == s[Len(s)]

\* The parser has returned.
Returned == pc \in {"returned", "index", "vector", "done", "raised"}

\* ------------------------------------------------------------------ claims

\* C1: every record emitted because a new section header closed the open
\* section carries the article label that was active when that section was
\* opened, also when an article header lies between the two section headers.
C1_ArticleAtOpen ==
    [][ (/\ pc = "loop" /\ pc' = "loop"
         /\ Len(sections_data') = Len(sections_data) + 1)
        => Last(sections_data')[2] = ArticleAfter(LastHeader) ]_vars

\* C2 as stated: a section whose only continuation paragraphs are metadata
\* and which is closed by the next section header yields no record.
C2_MetadataOnlyDropped ==
    [][ (/\ pc = "loop" /\ pc' = "loop"
         /\ NumHeaders >= 1
         /\ OnlyMetadataBetween(LastHeader, Len(paragraphs) + 1)
         /\ SectionMatch(get_text(Last(paragraphs'))) # None)
        => sections_data' = sections_data ]_vars

\* C2 as amended: such a section closes to the text of its own header
\* paragraph, which is not empty, and yields a record with that content and
\* the header's identifier.
C2_MetadataOnlyKeepsHeader ==
    (/\ pc = "loop"
     /\ AtHeader
     /\ NumHeaders >= 2
     /\ OnlyMetadataBetween(PrevHeader, Len(paragraphs)))
    => /\ sections_data # <<>>
       /\ Last(sections_data)[3] = SectionMatch(Texts[PrevHeader])
       /\ Last(sections_data)[4] = Texts[PrevHeader]
       /\ Last(sections_data)[4] # <<>>

C2_Witness ==
    /\ pc = "loop"
    /\ paragraphs = <<P_Sec101, P_Source, P_LawRev, P_Sec102>>
    /\ Len(sections_data) = 1

\* C3 as stated: at the end of input the open section is emitted, and when
\* its only continuation paragraphs are metadata its content is empty.
C3_LastMetadataOnlyEmpty ==
    (/\ Returned
     /\ NumHeaders >= 1
     /\ OnlyMetadataBetween(LastHeader, Len(paragraphs) + 1))
    => /\ sections_data # <<>>
       /\ Last(sections_data)[3] = SectionMatch(Texts[LastHeader])
       /\ Last(sections_data)[4] = <<>>

\* C3 as amended: at the end of input the open section is always emitted,
\* and when its only continuation paragraphs are metadata its content is
\* the text of its header paragraph, not the empty string.
C3_LastSectionEmitted ==
    (Returned /\ NumHeaders >= 1)
    => /\ sections_data # <<>>
       /\ Last(sections_data)[3] = SectionMatch(Texts[LastHeader])
       /\ OnlyMetadataBetween(LastHeader, Len(paragraphs) + 1)
            => Last(sections_data)[4] = Texts[LastHeader]

C3_Witness ==
    /\ pc = "returned"
    /\ paragraphs = <<P_Article1, P_Sec101, P_CrossRef>>
    /\ Len(sections_data) = 1

\* C4: every record in the output has non-empty content, whether it was
\* closed by a following section header or by the end of input.
C4_ContentNonEmpty ==
    \A j \in 1..Len(sections_data) : sections_data[j][4] # <<>>

C4_Witness ==
    /\ pc = "returned"
    /\ paragraphs = <<P_Sec101, P_Source, P_SecDecimal, P_Blank>>
    /\ Len(sections_data) = 2

\* The section identifiers of the headers read so far, in input order.
HeaderIds == [j \in 1..NumHeaders |-> SectionMatch(Texts[HeaderPos(j)])]

\* The section identifiers of the records emitted so far, in output order.
OutputIds == [j \in 1..Len(sections_data) |-> sections_data[j][3]]

IsPrefix(a, b) == Len(a) <= Len(b) /\ SubSeq(b, 1, Len(a)) = a

\* C5: the records come out in the order in which their header paragraphs
\* occur in the input, and the output only ever grows at its end.
C5_OutputOrder ==
    /\ [](IsPrefix(OutputIds, HeaderIds))
    /\ [][IsPrefix(sections_data, sections_data')]_vars

C5_Witness ==
    /\ pc = "returned"
    /\ paragraphs = <<P_Sec102, P_Article1, P_Sec101, P_Sec102>>
    /\ Len(sections_data) = 3

\* C6: there are never more records than section headers read so far, and
\* only one section accumulates: the one opened by the last header read.
C6_RecordCount ==
    /\ Len(sections_data) <= NumHeaders
    /\ pc = "loop" =>
         IF NumHeaders = 0
         THEN current_section_id = None /\ current_buffer = <<>>
         ELSE /\ current_section_id = SectionMatch(Texts[LastHeader])
              /\ current_buffer # <<>>
              /\ current_buffer[1] = Texts[LastHeader]

C6_Witness ==
    /\ pc = "returned"
    /\ paragraphs = <<P_Sec101, P_Body, P_Sec102, P_Malformed>>
    /\ Len(sections_data) = 2

\* Position of the last paragraph of the j-th section.
SectionEnd(j) ==
    IF j < NumHeaders THEN HeaderPos(j + 1) - 1 ELSE Len(paragraphs)

\* The header paragraph of the j-th section followed by the paragraphs up to
\* the next header that are neither article headers nor metadata, joined
\* with newlines and trimmed.
ExpectedContent(j) ==
    LET Body(t) == ~ArticleBlock(t) /\ ~MetadataBlock(t)
        rest == SubSeq(Texts, HeaderPos(j) + 1, SectionEnd(j))
    IN  Strip(Join(<<Texts[HeaderPos(j)]>> \o SelectSeq(rest, Body)))

ExampleBlocks == <<P_Article1, P_Sec101, P_Body, P_Sec102>>

ExampleOutput ==
    << << <<"T">>,
          <<"A", "R", "T", "I", "C", "L", "E", " ", "1">>,
          <<"1", "8", "-", "1", "-", "1", "0", "1">>,
          <<"1", "8", "-", "1", "-", "1", "0", "1", ".", " ", "F", "o", "o",
            ".", "\n", "M", "o", "r", "e", " ", "b", "o", "d", "y", ".">> >>,
       << <<"T">>,
          <<"A", "R", "T", "I", "C", "L", "E", " ", "1">>,
          <<"1", "8", "-", "1", "-", "1", "0", "2">>,
          <<"1", "8", "-", "1", "-", "1", "0", "2", ".", " ", "B", "a", "r",
            ".">> >> >>

\* C7: the content of every record is its header paragraph followed by the
\* paragraphs of its section that are neither article headers nor metadata,
\* joined with newlines and trimmed; its section_id is the first capture
\* group; and the example document of the specification gives exactly the
\* two records it lists.
C7_RecordContent ==
    /\ \A j \in 1..Len(sections_data) :
          /\ j <= NumHeaders
          /\ (j < NumHeaders \/ Returned)
          /\ sections_data[j][3] = SectionMatch(Texts[HeaderPos(j)])
          /\ sections_data[j][4] = ExpectedContent(j)
    /\ (pc = "returned" /\ paragraphs = ExampleBlocks /\ main_title = <<"T">>)
          => sections_data = ExampleOutput

C7_Witness ==
    /\ pc = "returned"
    /\ paragraphs = ExampleBlocks
    /\ main_title = <<"T">>
    /\ Len(sections_data) = 2

\* The step reads one more paragraph.
ReadsBlock == pc = "loop" /\ Len(paragraphs') = Len(paragraphs) + 1

\* C8: the article label starts as "General Provisions"; a paragraph that
\* begins (in any case) with ARTICLE and is shorter than 50 characters
\* replaces it by its own text and leaves the open section, its buffer and
\* the output alone; nothing else changes it.
C8_ArticleLabel ==
    /\ []((pc = "loop" /\ paragraphs = <<>>)
             => current_article = GeneralProvisions)
    /\ [][ pc = "loop" =>
             IF ReadsBlock /\ ArticleBlock(get_text(Last(paragraphs')))
             THEN /\ current_article' = get_text(Last(paragraphs'))
                  /\ UNCHANGED <<current_section_id, current_buffer,
                                 sections_data>>
             ELSE current_article' = current_article ]_vars

C8_Witness ==
    /\ pc = "loop"
    /\ paragraphs = <<P_Article2, P_Sec101, P_LongArticle, P_Sec102>>
    /\ current_article = P_Article2
    /\ Len(sections_data) = 1

\* C9: a document without any section header, the empty one included, gives
\* an empty output; a paragraph that is no section header and is read while
\* no section is open changes neither the output nor the no-section state.
C9_NoSectionNoOutput ==
    /\ []((Returned /\ NumHeaders = 0) => sections_data = <<>>)
    /\ [][ (/\ ReadsBlock
            /\ current_section_id = None
            /\ SectionMatch(get_text(Last(paragraphs'))) = None)
           => UNCHANGED <<current_section_id, current_buffer,
                          sections_data>> ]_vars

C9_Witness ==
    /\ pc = "returned"
    /\ paragraphs = <<P_Malformed, P_Body, P_Source, P_Blank>>
    /\ sections_data = <<>>

\* The row of table sections with the j-th smallest id.
RowOf(j) ==
    CHOOSE r \in sections :
        Cardinality({ q \in sections : q.id <= r.id }) = j

\* C10: the loader empties both tables first; every finished iteration has
\* added one row to sections and one to vec_sections under the same id, in
\* the order of the records, the vector being the embedding of
\* article + ". " + section_id + ". " + content; at the end both tables
\* hold one row per record, whatever an earlier run left behind.
C10_LoaderRows ==
    /\ pc = "parse" => sections = {} /\ vec_sections = {}
    /\ pc = "vector" =>
          Cardinality(sections) = n + 1 /\ Cardinality(vec_sections) = n
    /\ pc \in {"index", "done"} =>
          /\ { v.rowid : v \in vec_sections } = { r.id : r \in sections }
          /\ Cardinality(sections) = n
          /\ Cardinality(vec_sections) = n
          /\ \A j \in 1..n :
                LET rec == sections_data[j]
                    row == RowOf(j)
                IN  /\ <<row.main_title, row.article, row.section_id,
                         row.content>> = rec
                    /\ \E v \in vec_sections :
                          /\ v.rowid = row.id
                          /\ v.embedding =
                                Encode(rec[2] \o <<".", " ">> \o rec[3]
                                       \o <<".", " ">> \o rec[4])
    /\ pc = "done" => n = Len(sections_data)
    /\ pc # "raised"

C10_Witness ==
    /\ pc = "done"
    /\ paragraphs = <<P_Sec101, P_Article1, P_Sec101>>
    /\ Cardinality(sections) = 2
    /\ Cardinality(vec_sections) = 2

====
